---- MODULE Spec2Model ----
(***************************************************************************)
(* Model of list.py (ripe-utils): the record normalizer (Probe, Status,    *)
(* Geometry, Point, Tag), the paginating generator get_probes and the      *)
(* writer loop of main.                                                    *)
(*                                                                         *)
(* Python values are tagged records [t |-> tag, v |-> payload].  Strings   *)
(* are sequences of one-character strings, so that str(), upper() and      *)
(* join() are computed character by character.  Floats are restricted to   *)
(* integral values n.0 (payload n).                                        *)
(***************************************************************************)
EXTENDS Integers, Sequences, FiniteSets, TLC

\* ------------------------------------------------------------------------
\* Bounds of the model
\* ------------------------------------------------------------------------

\* Largest number of requests the server model answers.
MaxRequests == 3

\* Largest number of raw records in one page.
MaxResults == 2

\* ------------------------------------------------------------------------
\* Python values
\* ------------------------------------------------------------------------

PyStr(cs) == [t |-> "str", v |-> cs]

PyInt(n) == [t |-> "int", v |-> n]

PyFloat(n) == [t |-> "float", v |-> n]

PyBool(b) == [t |-> "bool", v |-> b]

PyNone == [t |-> "none", v |-> 0]

PyDict(f) == [t |-> "dict", v |-> f]

PyList(s) == [t |-> "list", v |-> s]

\* The '' every slot is initialised with.
EmptyStr == PyStr(<<>>)

\* A dict with no key.
NoKeys == [k \in {} |-> PyNone]

\* Python truthiness, as used by `if self.status`, `if not count`, `if not url`.
Truthy(x) ==
    CASE x.t = "str"   -> Len(x.v) > 0
      [] x.t = "int"   -> x.v # 0
      [] x.t = "float" -> x.v # 0
      [] x.t = "bool"  -> x.v
      [] x.t = "none"  -> FALSE
      [] x.t = "dict"  -> DOMAIN x.v # {}
      [] x.t = "list"  -> Len(x.v) > 0
      [] OTHER         -> TRUE

\* ------------------------------------------------------------------------
\* Strings: str(), upper(), join()
\* ------------------------------------------------------------------------

Digits == <<"0", "1", "2", "3", "4", "5", "6", "7", "8", "9">>

LowerCs == <<"a", "b", "c", "d", "e", "f", "g", "h", "i", "j", "k", "l", "m",
             "n", "o", "p", "q", "r", "s", "t", "u", "v", "w", "x", "y", "z">>

UpperCs == <<"A", "B", "C", "D", "E", "F", "G", "H", "I", "J", "K", "L", "M",
             "N", "O", "P", "Q", "R", "S", "T", "U", "V", "W", "X", "Y", "Z">>

RECURSIVE NatStr(_)
NatStr(n) ==
    IF n < 10 THEN <<Digits[n + 1]>>
    ELSE NatStr(n \div 10) \o <<Digits[(n % 10) + 1]>>

IntStr(n) == IF n < 0 THEN <<"-">> \o NatStr(-n) ELSE NatStr(n)

\* repr of the float n.0
FloatStr(n) == IntStr(n) \o <<".", "0">>

\* str(v) for the scalar values a row holds.
Str(x) ==
    CASE x.t = "str"   -> x.v
      [] x.t = "int"   -> IntStr(x.v)
      [] x.t = "float" -> FloatStr(x.v)
      [] x.t = "bool"  -> IF x.v THEN <<"T", "r", "u", "e">>
                                 ELSE <<"F", "a", "l", "s", "e">>
      [] x.t = "none"  -> <<"N", "o", "n", "e">>

UpperChar(c) ==
    IF \E i \in 1..Len(LowerCs) : LowerCs[i] = c
    THEN UpperCs[CHOOSE i \in 1..Len(LowerCs) : LowerCs[i] = c]
    ELSE c

\* str.upper()
Upper(cs) == [i \in 1..Len(cs) |-> UpperChar(cs[i])]

RECURSIVE Join(_, _)
\* sep.join(parts): parts is a sequence of strings.
Join(sep, parts) ==
    IF Len(parts) = 0 THEN <<>>
    ELSE IF Len(parts) = 1 THEN parts[1]
    ELSE parts[1] \o sep \o Join(sep, Tail(parts))

COL_SEP == <<",">>

TAG_SEP == <<"+">>

\* ------------------------------------------------------------------------
\* Record normalizer: Tag, Status, Point, Geometry, Probe
\* ------------------------------------------------------------------------

\* The outcome of a constructor call: the object, or the exception raised.
Ok(val) == [ok |-> TRUE, err |-> "", val |-> val]

Fail(err) == [ok |-> FALSE, err |-> err, val |-> PyNone]

\* `for attrib in __slots__: setattr(self, attrib, '')` followed by
\* `for k, v in kwargs.items(): setattr(self, k, v)`, for keys that are slots.
FillSlots(slots, kw) ==
    [a \in slots |-> IF a \in DOMAIN kw THEN kw[a] ELSE EmptyStr]

\* setattr on a class with __slots__ raises AttributeError for any other name.
SetattrRaises(slots, kw) == \E k \in DOMAIN kw : k \notin slots

TagSlots == {"name", "slug"}

StatusSlots == {"since", "id", "name"}

PointSlots == {"x", "y", "lat", "lng"}

GeometrySlots == {"coordinates", "type"}

ProbeSlots == {"address_v4", "address_v6", "asn_v4", "asn_v6", "country_code",
               "description", "first_connected", "geometry", "id", "is_anchor",
               "is_public", "last_connected", "prefix_v4", "prefix_v6",
               "status", "status_since", "tags", "type"}

Tag(name, slug) == [t |-> "Tag", v |-> [name |-> name, slug |-> slug]]

Status(kw) ==
    IF SetattrRaises(StatusSlots, kw) THEN Fail("AttributeError")
    ELSE Ok([t |-> "Status", v |-> FillSlots(StatusSlots, kw)])

\* Point with lat and lng taken in source order: lat = x, lng = y.
PointSwapped(coords) ==
    IF Len(coords) # 2 THEN Fail("ValueError")
    ELSE Ok([t |-> "Point",
             v |-> [x |-> coords[1], y |-> coords[2],
                    lat |-> coords[1], lng |-> coords[2]]])

\* Point(*coords): `self.x, self.y = coords` needs exactly two values.
Point(coords) ==
    IF Len(coords) # 2 THEN Fail("ValueError")
    ELSE Ok([t |-> "Point",
             v |-> [x |-> coords[1], y |-> coords[2],
                    lat |-> coords[2], lng |-> coords[1]]])

\* The placeholder coordinate of line 82.
SENTINEL == -1111

Geometry(kw) ==
    IF SetattrRaises(GeometrySlots, kw) THEN Fail("AttributeError")
    ELSE LET attrs == FillSlots(GeometrySlots, kw)
             pt == IF Truthy(attrs["coordinates"])
                   THEN IF attrs["coordinates"].t = "list"
                        THEN Point(attrs["coordinates"].v)
                        ELSE Fail("TypeError")
                   ELSE Point(<<PyFloat(SENTINEL), PyFloat(SENTINEL)>>)
         IN  IF ~pt.ok THEN pt
             ELSE Ok([t |-> "Geometry",
                      v |-> [attrs EXCEPT !["coordinates"] = pt.val]])

\* t[u'name'], t[u'slug'] of one raw tag: KeyError when a key is missing.
TagRaises(rawTag) ==
    rawTag.t # "dict" \/ ~(TagSlots \subseteq DOMAIN rawTag.v)

\* [Tag(t[u'name'], t[u'slug']) for t in self.tags]; the default '' iterates
\* as the empty sequence.
Tags(raw) ==
    IF raw.t = "str" /\ Len(raw.v) = 0 THEN Ok(PyList(<<>>))
    ELSE IF raw.t # "list" THEN Fail("TypeError")
    ELSE IF \E i \in 1..Len(raw.v) : TagRaises(raw.v[i]) THEN Fail("KeyError")
    ELSE Ok(PyList([i \in 1..Len(raw.v) |->
                       Tag(raw.v[i].v["name"], raw.v[i].v["slug"])]))

\* Status(**self.status) if self.status else Status()
ProbeStatus(raw) ==
    IF Truthy(raw)
    THEN IF raw.t = "dict" THEN Status(raw.v) ELSE Fail("TypeError")
    ELSE Status(NoKeys)

\* Geometry(**self.geometry) if self.geometry else Geometry()
ProbeGeometry(raw) ==
    IF Truthy(raw)
    THEN IF raw.t = "dict" THEN Geometry(raw.v) ELSE Fail("TypeError")
    ELSE Geometry(NoKeys)

\* Probe(**kwargs): the first exception raised wins.
Probe(kw) ==
    IF SetattrRaises(ProbeSlots, kw) THEN Fail("AttributeError")
    ELSE LET attrs == FillSlots(ProbeSlots, kw)
             st == ProbeStatus(attrs["status"])
             ge == ProbeGeometry(attrs["geometry"])
             tg == Tags(attrs["tags"])
         IN  IF ~st.ok THEN st
             ELSE IF ~ge.ok THEN ge
             ELSE IF ~tg.ok THEN tg
             ELSE Ok([t |-> "Probe",
                      v |-> [attrs EXCEPT !["status"] = st.val,
                                          !["geometry"] = ge.val,
                                          !["tags"] = tg.val]])

\* ------------------------------------------------------------------------
\* main: one output row per probe
\* ------------------------------------------------------------------------

\* TAG_SEP.join(t.slug for t in p.tags)
TagField(tags) == Join(TAG_SEP, [i \in 1..Len(tags.v) |-> tags.v[i].v.slug.v])

\* 1 if flag else 0
FlagField(flag) == Str(PyInt(IF Truthy(flag) THEN 1 ELSE 0))

\* The sixteen values of lines 173-188, each passed through str().
RowFields(p) ==
    << Str(p.v["id"]),
       Str(p.v["asn_v4"]),
       Str(p.v["address_v4"]),
       Str(p.v["prefix_v4"]),
       Str(p.v["asn_v6"]),
       Str(p.v["address_v6"]),
       Str(p.v["prefix_v6"]),
       Str(p.v["country_code"]),
       Str(p.v["geometry"].v["coordinates"].v.lat),
       Str(p.v["geometry"].v["coordinates"].v.lng),
       FlagField(p.v["is_anchor"]),
       FlagField(p.v["is_public"]),
       Str(p.v["last_connected"]),
       Upper(p.v["status"].v["name"].v),
       Str(p.v["status_since"]),
       TagField(p.v["tags"]) >>

\* u"%s\n" % COL_SEP.join(...)
Row(p) == Join(COL_SEP, RowFields(p)) \o <<"\n">>

\* ------------------------------------------------------------------------
\* Raw records, as r.json() delivers them
\* ------------------------------------------------------------------------

StatusOpts == {"absent", "null", "empty", "full", "partial", "extra"}

GeometryOpts == {"absent", "empty", "nocoords", "emptycoords", "pair"}

TagsOpts == {"absent", "none", "ab", "noslug", "noname"}

ScalarOpts == {"none", "all"}

ExtraOpts == {"none", "unknown"}

FullStatus ==
    ("since" :> PyInt(1464000000)) @@ ("id" :> PyInt(1))
        @@ ("name" :> PyStr(<<"C", "o", "n", "n", "e", "c", "t", "e", "d">>))

RawStatus(opt) ==
    CASE opt = "null"    -> PyNone
      [] opt = "empty"   -> PyDict(NoKeys)
      [] opt = "full"    -> PyDict(FullStatus)
      [] opt = "partial" -> PyDict("id" :> PyInt(2))
      [] opt = "extra"   -> PyDict(FullStatus @@ ("label" :> PyStr(<<"x">>)))

PointType == PyStr(<<"P", "o", "i", "n", "t">>)

RawGeometry(opt) ==
    CASE opt = "empty"       -> PyDict(NoKeys)
      [] opt = "nocoords"    -> PyDict("type" :> PointType)
      [] opt = "emptycoords" -> PyDict(("type" :> PointType)
                                        @@ ("coordinates" :> PyList(<<>>)))
      [] opt = "pair"        -> PyDict(("type" :> PointType)
                                        @@ ("coordinates" :>
                                              PyList(<<PyFloat(10), PyFloat(20)>>)))

RawTagA == PyDict(("name" :> PyStr(<<"a">>)) @@ ("slug" :> PyStr(<<"a", "1">>)))

RawTagB == PyDict(("name" :> PyStr(<<"b">>)) @@ ("slug" :> PyStr(<<"b", "2">>)))

RawTags(opt) ==
    CASE opt = "none"   -> PyList(<<>>)
      [] opt = "ab"     -> PyList(<<RawTagA, RawTagB>>)
      [] opt = "noslug" -> PyList(<<RawTagA, PyDict("name" :> PyStr(<<"b">>))>>)
      [] opt = "noname" -> PyList(<<PyDict("slug" :> PyStr(<<"a", "1">>))>>)

RawScalars(idv) ==
    ("id" :> PyInt(idv)) @@ ("asn_v4" :> PyInt(3320)) @@ ("asn_v6" :> PyNone)
        @@ ("country_code" :> PyStr(<<"D", "E">>))
        @@ ("is_anchor" :> PyBool(FALSE)) @@ ("is_public" :> PyBool(TRUE))
        @@ ("status_since" :> PyInt(1464000000))

\* One raw probe mapping; a key is present only when its option is not
\* "absent"/"none".
RawRecord(idv, sc, st, ge, tg, ex) ==
    (IF sc = "all" THEN RawScalars(idv) ELSE NoKeys)
        @@ (IF st = "absent" THEN NoKeys ELSE "status" :> RawStatus(st))
        @@ (IF ge = "absent" THEN NoKeys ELSE "geometry" :> RawGeometry(ge))
        @@ (IF tg = "absent" THEN NoKeys ELSE "tags" :> RawTags(tg))
        @@ (IF ex = "unknown" THEN "firmware_version" :> PyInt(4790) ELSE NoKeys)

\* ------------------------------------------------------------------------
\* Constants of list.py
\* ------------------------------------------------------------------------

\* The header line main writes first.
HEADER ==
    << "#", "<", "i", "d", ">", ",", "<", "a", "s", "n", "_", "v", "4", ">",
       ",", "<", "a", "d", "d", "r", "e", "s", "s", "_", "v", "4", ">", ",",
       "<", "p", "f", "x", "_", "v", "4", ">", ",", "<", "a", "s", "n", "_",
       "v", "6", ">", ",", "<", "a", "d", "d", "r", "e", "s", "s", "_", "v",
       "6", ">", ",", "<", "p", "f", "x", "_", "v", "6", ">", ",", "<", "c",
       "o", "u", "n", "t", "r", "y", ">", ",", "<", "l", "a", "t", ">", ",",
       "<", "l", "n", "g", ">", ",", "<", "a", "n", "c", "h", "o", "r", "?",
       ">", ",", "<", "p", "u", "b", "l", "i", "c", "?", ">", ",", "<", "l",
       "a", "s", "t", "_", "c", "o", "n", "n", "e", "c", "t", ">", ",", "<",
       "s", "t", "a", "t", "u", "s", ">", ",", "<", "s", "t", "a", "t", "u",
       "s", "_", "t", "s", ">", ",", "<", "t", "a", "g", "s", ">", "\n" >>

API_PROBES ==
    << "h", "t", "t", "p", "s", ":", "/", "/", "a", "t", "l", "a", "s", ".",
       "r", "i", "p", "e", ".", "n", "e", "t", "/", "a", "p", "i", "/", "v",
       "2", "/", "p", "r", "o", "b", "e", "s", "/" >>

\* requests.codes.ok
OK_CODE == 200

\* Number of objects per page asked of the API.
PAGE_SZ == 500

\* ------------------------------------------------------------------------
\* The server: what one requests.get may return
\* ------------------------------------------------------------------------

\* Status codes the server answers with: ok, another success code, a
\* redirection class code that requests does not follow, a client error and
\* a server error.
StatusCodes == {200, 203, 304, 404, 500}

\* HTTP success is the 2xx class.
IsSuccess(code) == code >= 200 /\ code < 300

\* Response.raise_for_status(): raises HTTPError for 4xx and 5xx only.
RaiseForStatus(code) == code >= 400 /\ code < 600

\* Total-count values of a body.
CountValues == {0, 1}

\* The opaque reference to a following page.
NEXT_URL == PyStr(<<"u">>)

NextValues == {"null", "url"}

\* Kinds of record a page carries: well formed, with a tag lacking its
\* slug, with a key that is no slot of Probe.
PageKinds == {"plain", "noslug", "unknown"}

\* A page of len records with ascending ids from first (the request sorts by
\* id); records with an even id carry no status and no geometry.
PageResults(first, len, kindOf) ==
    [i \in 1..len |->
        RawRecord(first + i - 1, "all",
                  IF (first + i - 1) % 2 = 0 THEN "absent" ELSE "full",
                  IF (first + i - 1) % 2 = 0 THEN "absent" ELSE "pair",
                  IF kindOf[i] = "noslug" THEN "noslug" ELSE "ab",
                  IF kindOf[i] = "unknown" THEN "unknown" ELSE "none")]

Body(cnt, nxt, res) ==
    [count |-> PyInt(cnt),
     next |-> IF nxt = "null" THEN PyNone ELSE NEXT_URL,
     results |-> res]

\* r.json() of a body that is not the expected JSON document.
Malformed == Fail("ValueError")

NoResponse == [status |-> 0, json |-> Fail("")]

\* The responses the server may give when its cursor stands at id first.
Responses(first) ==
    { [status |-> code, json |-> Malformed] : code \in StatusCodes }
    \cup
    { [status |-> code, json |-> Ok(Body(cnt, nxt, PageResults(first, len, kindOf)))] :
        code \in {c \in StatusCodes : ~RaiseForStatus(c)},
        cnt \in CountValues, nxt \in NextValues,
        len \in 0..MaxResults, kindOf \in [1..MaxResults -> PageKinds] }
    \cup
    { [status |-> code,
       json |-> Ok(Body(1, "null", PageResults(first, 1, <<"plain">>)))] :
        code \in {c \in StatusCodes : RaiseForStatus(c)} }

\* ------------------------------------------------------------------------
\* State
\* ------------------------------------------------------------------------

VARIABLES
    mainPc,     \* main: "open", "for", "wait" (inside next()), "body", "done", "aborted"
    fileOpen,   \* whether f is open
    fileLines,  \* what has been written to f, one entry per f.write
    n,          \* main's counter of probes written
    p,          \* main's loop variable
    genPc,      \* get_probes: "created", "status", "json", "count", "results",
                \* "url", "get", "done" (returned), "raised"
    r,          \* get_probes: the response at hand
    data,       \* get_probes: r.json()
    count,      \* get_probes: data[u'count']
    url,        \* get_probes: data[u'next']
    idx,        \* get_probe_data: position in results of the next record
    exc,        \* the exception that left get_probes, "" if none
    request,    \* the last request issued: its url and params
    requests,   \* number of requests issued so far
    yielded,    \* every Probe yielded so far, in order
    served,     \* every raw record handed to get_probe_data so far, in order
    chainOk,    \* every response so far: success status, parsed, count non-zero
    links,      \* number of parsed bodies so far whose next is not null
    cursor,     \* server: id of the next record it serves
    normPc,     \* normalizer run: "off", "input", "built", "failed", "written"
    raw,        \* normalizer run: the raw record
    obj,        \* normalizer run: outcome of Probe(**raw)
    text        \* normalizer run: the row main writes for obj

vars == <<mainPc, fileOpen, fileLines, n, p, genPc, r, data, count, url, idx,
          exc, request, requests, yielded, served, chainOk, links, cursor,
          normPc, raw, obj, text>>

mainVars == <<fileOpen, fileLines, n, p>>

genLocals == <<r, data, count, url, idx>>

ghostVars == <<yielded, served, chainOk, links>>

normVars == <<normPc, raw, obj, text>>

NoRequest == [url |-> <<>>, params |-> NoKeys]

NoData == Body(0, "null", <<>>)

\* ------------------------------------------------------------------------
\* Initial states
\* ------------------------------------------------------------------------

ProgramInit ==
    /\ mainPc = "open"
    /\ fileOpen = FALSE
    /\ fileLines = <<>>
    /\ n = 0
    /\ p = PyNone
    /\ genPc = "created"
    /\ r = NoResponse
    /\ data = NoData
    /\ count = PyNone
    /\ url = PyNone
    /\ idx = 0
    /\ exc = ""
    /\ request = NoRequest
    /\ requests = 0
    /\ yielded = <<>>
    /\ served = <<>>
    /\ chainOk = TRUE
    /\ links = 0
    /\ cursor = 1

Init ==
    /\ ProgramInit
    /\ normPc = "off"
    /\ raw = NoKeys
    /\ obj = Fail("")
    /\ text = <<>>

\* ------------------------------------------------------------------------
\* main
\* ------------------------------------------------------------------------

\* Lines 161-170: open the file, write the header, n = 0, create the generator.
MainOpen ==
    /\ mainPc = "open"
    /\ fileOpen' = TRUE
    /\ fileLines' = <<HEADER>>
    /\ n' = 0
    /\ mainPc' = "for"
    /\ UNCHANGED <<p, genPc, genLocals, exc, request, requests, ghostVars,
                   cursor, normVars>>

\* Line 170: the for statement asks the generator for its next value.
MainNext ==
    /\ mainPc = "for"
    /\ mainPc' = "wait"
    /\ UNCHANGED <<mainVars, genPc, genLocals, exc, request, requests,
                   ghostVars, cursor, normVars>>

\* Lines 171-192: write the row of p and count it.
MainWrite ==
    /\ mainPc = "body"
    /\ fileLines' = Append(fileLines, Row(p))
    /\ n' = n + 1
    /\ mainPc' = "for"
    /\ UNCHANGED <<fileOpen, p, genPc, genLocals, exc, request, requests,
                   ghostVars, cursor, normVars>>

\* Line 193 and the end of the with block: the generator returned.
MainFinish ==
    /\ mainPc = "wait"
    /\ genPc = "done"
    /\ fileOpen' = FALSE
    /\ mainPc' = "done"
    /\ UNCHANGED <<fileLines, n, p, genPc, genLocals, exc, request, requests,
                   ghostVars, cursor, normVars>>

\* main without the with block: the exception leaves the file open.
MainAbortLeaveOpen ==
    /\ mainPc = "wait"
    /\ genPc = "raised"
    /\ mainPc' = "aborted"
    /\ UNCHANGED <<mainVars, genPc, genLocals, exc, request, requests,
                   ghostVars, cursor, normVars>>

\* The with block is left by the exception that came out of next(): the file
\* is closed and the exception goes on to the caller of main.
MainAbort ==
    /\ mainPc = "wait"
    /\ genPc = "raised"
    /\ fileOpen' = FALSE
    /\ mainPc' = "aborted"
    /\ UNCHANGED <<fileLines, n, p, genPc, genLocals, exc, request, requests,
                   ghostVars, cursor, normVars>>

\* ------------------------------------------------------------------------
\* get_probes and get_probe_data
\* ------------------------------------------------------------------------

\* requests.get(target, params): a response arrives, or the transport fails.
Get(target, params) ==
    /\ requests < MaxRequests
    /\ request' = [url |-> target, params |-> params]
    /\ requests' = requests + 1
    /\ \/ \E resp \in Responses(cursor) :
            /\ r' = resp
            /\ cursor' = IF resp.json.ok
                         THEN cursor + Len(resp.json.val.results)
                         ELSE cursor
            /\ genPc' = "status"
            /\ exc' = exc
       \/ /\ genPc' = "raised"
          /\ exc' = "ConnectionError"
          /\ UNCHANGED <<r, cursor>>

\* Lines 139-140: the first request.
GenGetFirst ==
    /\ mainPc = "wait"
    /\ genPc = "created"
    /\ Get(API_PROBES, ("page_size" :> PyInt(PAGE_SZ)) @@ ("sort" :> PyStr(<<"i", "d">>)))
    /\ UNCHANGED <<mainPc, mainVars, data, count, url, idx, ghostVars, normVars>>

\* Lines 142-143.
GenCheckStatus ==
    /\ mainPc = "wait"
    /\ genPc = "status"
    /\ IF r.status # OK_CODE /\ RaiseForStatus(r.status)
       THEN genPc' = "raised" /\ exc' = "HTTPError"
       ELSE genPc' = "json" /\ exc' = exc
    /\ chainOk' = (chainOk /\ IsSuccess(r.status))
    /\ UNCHANGED <<mainPc, mainVars, genLocals, request, requests, yielded,
                   served, links, cursor, normVars>>

\* Lines 145-147.
GenJson ==
    /\ mainPc = "wait"
    /\ genPc = "json"
    /\ IF r.json.ok
       THEN /\ data' = r.json.val
            /\ count' = r.json.val.count
            /\ url' = r.json.val.next
            /\ links' = IF r.json.val.next.t # "none" THEN links + 1 ELSE links
            /\ chainOk' = (chainOk /\ r.json.val.count.v # 0)
            /\ genPc' = "count"
            /\ exc' = exc
       ELSE /\ genPc' = "raised"
            /\ exc' = r.json.err
            /\ chainOk' = FALSE
            /\ UNCHANGED <<data, count, url, links>>
    /\ UNCHANGED <<mainPc, mainVars, r, idx, request, requests, yielded,
                   served, cursor, normVars>>

\* get_probes without the count test of lines 149-150.
GenCountNoCheck ==
    /\ mainPc = "wait"
    /\ genPc = "count"
    /\ genPc' = "results"
    /\ idx' = 1
    /\ served' = served \o data.results
    /\ UNCHANGED <<mainPc, mainVars, r, data, count, url, exc, request,
                   requests, yielded, chainOk, links, cursor, normVars>>

\* Lines 149-152: leave on a zero count, else hand the results to
\* get_probe_data.
GenCount ==
    /\ mainPc = "wait"
    /\ genPc = "count"
    /\ IF ~Truthy(count)
       THEN genPc' = "done" /\ UNCHANGED <<idx, served>>
       ELSE genPc' = "results" /\ idx' = 1 /\ served' = served \o data.results
    /\ UNCHANGED <<mainPc, mainVars, r, data, count, url, exc, request,
                   requests, yielded, chainOk, links, cursor, normVars>>

\* get_probes fetching the following page while it yields the last entity of
\* the current one.
GenYieldPrefetch ==
    /\ mainPc = "wait"
    /\ genPc = "results"
    /\ idx <= Len(data.results)
    /\ LET made == Probe(data.results[idx])
       IN  IF made.ok
           THEN /\ p' = made.val
                /\ yielded' = Append(yielded, made.val)
                /\ idx' = idx + 1
                /\ mainPc' = "body"
                /\ UNCHANGED <<genPc, exc>>
                /\ IF idx = Len(data.results) /\ Truthy(url)
                      /\ requests < MaxRequests
                   THEN /\ request' = [url |-> url.v, params |-> NoKeys]
                        /\ requests' = requests + 1
                        /\ \E resp \in Responses(cursor) : r' = resp
                   ELSE UNCHANGED <<request, requests, r>>
           ELSE /\ genPc' = "raised"
                /\ exc' = made.err
                /\ UNCHANGED <<p, yielded, idx, mainPc, request, requests, r>>
    /\ UNCHANGED <<fileOpen, fileLines, n, data, count, url, served, chainOk,
                   links, cursor, normVars>>

\* get_probe_data swallowing the exception of a record and going on to the
\* next one.
GenYieldSkipFailed ==
    /\ mainPc = "wait"
    /\ genPc = "results"
    /\ idx <= Len(data.results)
    /\ LET made == Probe(data.results[idx])
       IN  IF made.ok
           THEN /\ p' = made.val
                /\ yielded' = Append(yielded, made.val)
                /\ mainPc' = "body"
           ELSE UNCHANGED <<p, yielded, mainPc>>
    /\ idx' = idx + 1
    /\ UNCHANGED <<fileOpen, fileLines, n, genPc, exc, r, data, count, url,
                   request, requests, served, chainOk, links, cursor, normVars>>

\* Lines 132-133 and 152: build the Probe of the next record and yield it;
\* an exception of the constructor leaves the generator.
GenYield ==
    /\ mainPc = "wait"
    /\ genPc = "results"
    /\ idx <= Len(data.results)
    /\ LET made == Probe(data.results[idx])
       IN  IF made.ok
           THEN /\ p' = made.val
                /\ yielded' = Append(yielded, made.val)
                /\ idx' = idx + 1
                /\ mainPc' = "body"
                /\ UNCHANGED <<genPc, exc>>
           ELSE /\ genPc' = "raised"
                /\ exc' = made.err
                /\ UNCHANGED <<p, yielded, idx, mainPc>>
    /\ UNCHANGED <<fileOpen, fileLines, n, r, data, count, url, request,
                   requests, served, chainOk, links, cursor, normVars>>

\* get_probe_data is exhausted: yield from returns.
GenExhausted ==
    /\ mainPc = "wait"
    /\ genPc = "results"
    /\ idx > Len(data.results)
    /\ genPc' = "url"
    /\ UNCHANGED <<mainPc, mainVars, genLocals, exc, request, requests,
                   ghostVars, cursor, normVars>>

\* get_probes leaving after the first page whatever next holds.
GenUrlAlwaysStop ==
    /\ mainPc = "wait"
    /\ genPc = "url"
    /\ genPc' = "done"
    /\ UNCHANGED <<mainPc, mainVars, genLocals, exc, request, requests,
                   ghostVars, cursor, normVars>>

\* Lines 154-155.
GenUrl ==
    /\ mainPc = "wait"
    /\ genPc = "url"
    /\ genPc' = IF ~Truthy(url) THEN "done" ELSE "get"
    /\ UNCHANGED <<mainPc, mainVars, genLocals, exc, request, requests,
                   ghostVars, cursor, normVars>>

\* Line 157: the follow-up request, to the reference alone.
GenGetNext ==
    /\ mainPc = "wait"
    /\ genPc = "get"
    /\ Get(url.v, NoKeys)
    /\ UNCHANGED <<mainPc, mainVars, data, count, url, idx, ghostVars, normVars>>

Next ==
    \/ MainOpen
    \/ MainNext
    \/ MainWrite
    \/ MainFinish
    \/ MainAbort
    \/ GenGetFirst
    \/ GenCheckStatus
    \/ GenJson
    \/ GenCount
    \/ GenYield
    \/ GenExhausted
    \/ GenUrl
    \/ GenGetNext

Spec == Init /\ [][Next]_vars

\* ------------------------------------------------------------------------
\* The normalizer on its own: Probe(**raw) and the row of main, for every raw
\* record of the bounded set
\* ------------------------------------------------------------------------

progVars == <<mainPc, fileOpen, fileLines, n, p, genPc, r, data, count, url,
              idx, exc, request, requests, yielded, served, chainOk, links,
              cursor>>

InitNorm ==
    /\ ProgramInit
    /\ normPc = "input"
    /\ \E sc \in ScalarOpts, st \in StatusOpts, ge \in GeometryOpts,
          tg \in TagsOpts, ex \in ExtraOpts :
            raw = RawRecord(1, sc, st, ge, tg, ex)
    /\ obj = Fail("")
    /\ text = <<>>

\* Line 133: Probe(**probe_data).
Normalize ==
    /\ normPc = "input"
    /\ obj' = Probe(raw)
    /\ normPc' = IF Probe(raw).ok THEN "built" ELSE "failed"
    /\ UNCHANGED <<raw, text, progVars>>

\* Lines 171-188: the row of the Probe.
Serialize ==
    /\ normPc = "built"
    /\ text' = Row(obj.val)
    /\ normPc' = "written"
    /\ UNCHANGED <<raw, obj, progVars>>

NextNorm ==
    \/ Normalize
    \/ Serialize

SpecNorm == InitNorm /\ [][NextNorm]_vars

\* ------------------------------------------------------------------------
\* Properties: helpers
\* ------------------------------------------------------------------------

\* The Probes of a sequence of raw records, in order.
NormAll(recs) == [i \in 1..Len(recs) |-> Probe(recs[i]).val]

\* The rows of a sequence of Probes, in order.
RowsOf(probes) == [i \in 1..Len(probes) |-> Row(probes[i])]

RECURSIVE SplitCells(_, _, _)
\* cs split at every "," (cur: the cell being read, acc: the cells read).
SplitCells(cs, cur, acc) ==
    IF Len(cs) = 0 THEN Append(acc, cur)
    ELSE IF Head(cs) = "," THEN SplitCells(Tail(cs), <<>>, Append(acc, cur))
    ELSE SplitCells(Tail(cs), Append(cur, Head(cs)), acc)

\* The comma-separated fields of a written line, its newline dropped.
Cells(line) == SplitCells(SubSeq(line, 1, Len(line) - 1), <<>>, <<>>)

IsEmptyStr(x) == x.t = "str" /\ Len(x.v) = 0

\* The raw record without the keys that are no Probe field.
Strip(kw) == [k \in DOMAIN kw \cap ProbeSlots |-> kw[k]]

\* Two constructor outcomes agree: both fail, or both give the same object.
SameOutcome(a, b) == a.ok = b.ok /\ (a.ok => a.val = b.val)

\* The key is absent from the raw record or holds an empty value.
Missing(kw, key) == key \notin DOMAIN kw \/ ~Truthy(kw[key])

\* The raw record has no tags or only tags with both name and slug.
WellFormedTags(kw) ==
    "tags" \notin DOMAIN kw
    \/ (kw["tags"].t = "list"
        /\ \A i \in 1..Len(kw["tags"].v) : ~TagRaises(kw["tags"].v[i]))

\* The raw record has a tag lacking name or slug.
TagMalformed(kw) == ~WellFormedTags(kw)

\* The geometry is missing, or has no or empty coordinates.
NoCoordinates(kw) ==
    Missing(kw, "geometry")
    \/ (kw["geometry"].t = "dict" /\ Missing(kw["geometry"].v, "coordinates"))

Normalized == normPc \in {"built", "failed", "written"}

\* ------------------------------------------------------------------------
\* Properties of the normalizer (SpecNorm)
\* ------------------------------------------------------------------------

\* The slots lines 116-126 rebuild whatever the record holds.
RebuiltSlots == {"status", "geometry", "tags"}

\* C5: normalization ignores every key that is no Probe field (the outcome
\* is that of the record without those keys, with no failure of its own), and
\* every recognized field missing from the record holds '' (read for the
\* fields normalization copies; status, geometry and tags are rebuilt).
C5_UnknownKeysIgnored ==
    Normalized =>
        /\ SameOutcome(obj, Probe(Strip(raw)))
        /\ obj.ok => \A a \in (ProbeSlots \ RebuiltSlots) \ DOMAIN raw :
                        IsEmptyStr(obj.val.v[a])

\* A record with full status, geometry [10.0, 20.0] and tags a/a1, b/b2.
IsFullRecord(kw) ==
    /\ DOMAIN kw \subseteq ProbeSlots
    /\ {"status", "geometry", "tags"} \subseteq DOMAIN kw
    /\ kw["status"] = RawStatus("full")
    /\ kw["geometry"] = RawGeometry("pair")
    /\ kw["tags"] = RawTags("ab")

\* C7 as stated: the row main writes for such a record has sixteen fields,
\* the last one A1+B2, the latitude field 20.0 and the longitude field 10.0.
C7_LastFieldUpperCased ==
    (normPc = "written" /\ IsFullRecord(raw)) =>
        /\ Len(Cells(text)) = 16
        /\ Cells(text)[16] = <<"A", "1", "+", "B", "2">>
        /\ Cells(text)[9] = <<"2", "0", ".", "0">>
        /\ Cells(text)[10] = <<"1", "0", ".", "0">>

\* C7 amended: the row of such a record has last field a1+b2 (the slugs as
\* given, joined with +), latitude field 20.0 and longitude field 10.0.
C7_RowOfFullRecord ==
    (normPc = "written" /\ IsFullRecord(raw)) =>
        /\ Len(Cells(text)) = 16
        /\ Cells(text)[16] = <<"a", "1", "+", "b", "2">>
        /\ Cells(text)[9] = <<"2", "0", ".", "0">>
        /\ Cells(text)[10] = <<"1", "0", ".", "0">>

\* A full record, with its scalar fields, has been written as a row.
C7_Witness == normPc = "written" /\ IsFullRecord(raw) /\ "id" \in DOMAIN raw

\* C8: for every raw record with well-formed tags whose status or geometry
\* is absent or empty, normalization does not fail; a missing status gives a
\* Status of three empty strings, a missing geometry or missing coordinates
\* give the sentinel Point x = y = lat = lng = -1111.0.
C8_MissingPartsDefaultFilled ==
    (/\ Normalized
     /\ WellFormedTags(raw)
     /\ (Missing(raw, "status") \/ Missing(raw, "geometry"))) =>
        /\ obj.ok
        /\ Missing(raw, "status") =>
              \A a \in StatusSlots : IsEmptyStr(obj.val.v["status"].v[a])
        /\ NoCoordinates(raw) =>
              \A a \in PointSlots :
                  obj.val.v["geometry"].v["coordinates"].v[a] = PyFloat(SENTINEL)

\* ------------------------------------------------------------------------
\* Properties of get_probes and main (Spec)
\* ------------------------------------------------------------------------

\* C1: when get_probes has returned after a chain of pages that all had a
\* success status, a parsed body and a non-zero count, the last page is the
\* one with a null next, the entities yielded are exactly the Probes of the
\* records of page 1, page 2, ... in server order, and the number of
\* requests issued is the number of pages (the pages with a next, plus one).
C1_PagesInOrder ==
    (genPc = "done" /\ chainOk) =>
        /\ url = PyNone
        /\ yielded = NormAll(served)
        /\ requests = links + 1

\* Three pages of two records each have been listed to the end.
C1_Witness ==
    /\ genPc = "done"
    /\ chainOk
    /\ requests = 3
    /\ Len(yielded) = 6
    /\ mainPc = "done"

\* C2: once a response with a non-success status has been looked at by
\* get_probes, get_probes has raised an HTTP error (so nothing of that
\* response is yielded and nothing is requested after it).
C2_FailedStatusRaises ==
    (r # NoResponse /\ ~IsSuccess(r.status) /\ genPc # "status") =>
        (genPc = "raised" /\ exc = "HTTPError")

\* The first response has been received, no later one, and it reports a
\* zero count.
FirstReportsZero ==
    requests = 1 /\ r # NoResponse /\ r.json.ok /\ r.json.val.count.v = 0

\* C3: when the first response reports count = 0, nothing is ever yielded
\* and no second request is issued, whatever results and next hold.
C3_ZeroCountYieldsNothing ==
    /\ [](FirstReportsZero => yielded = <<>>)
    /\ [][FirstReportsZero => (requests' = 1 /\ yielded' = <<>>)]_vars

\* A first page with count 0, two records and a next has ended the run.
C3_Witness ==
    /\ FirstReportsZero
    /\ IsSuccess(r.status)
    /\ Len(r.json.val.results) = 2
    /\ r.json.val.next # PyNone
    /\ mainPc = "done"

\* C4: a request is issued only by the generator while the caller waits in
\* next(), and only when every record handed over so far has been yielded
\* and every yielded entity has been taken (written) by the caller.
C4_PullNotPrefetch ==
    [][requests' # requests =>
          /\ mainPc = "wait"
          /\ n = Len(yielded)
          /\ yielded = NormAll(served)
          /\ requests > 0 => idx > Len(data.results)]_vars

\* The second request has been issued after two entities were written.
C4_Witness ==
    /\ requests = 2
    /\ genPc = "status"
    /\ n = 2
    /\ Len(served) = 2

\* Position in served of the first record with a malformed tag, 0 if none.
FirstMalformed ==
    IF \E i \in 1..Len(served) : TagMalformed(served[i])
    THEN CHOOSE i \in 1..Len(served) :
            /\ TagMalformed(served[i])
            /\ \A j \in 1..(i - 1) : ~TagMalformed(served[j])
    ELSE 0

\* C6: once a page with a record whose tag lacks name or slug has been
\* handed to get_probe_data, no entity is ever yielded for that record or a
\* later one, the generator never gets past the page, main never completes
\* and writes rows only for yielded entities; when the record's KeyError is
\* raised the entities of all earlier records have been yielded, and after
\* it nothing is yielded, requested or written.
C6_MalformedTagAborts ==
    /\ [](FirstMalformed > 0 =>
            /\ Len(yielded) < FirstMalformed
            /\ yielded = NormAll(SubSeq(served, 1, Len(yielded)))
            /\ genPc \in {"results", "raised"}
            /\ mainPc # "done"
            /\ Len(fileLines) <= 1 + Len(yielded)
            /\ (genPc = "raised" /\ exc = "KeyError") =>
                    Len(yielded) = FirstMalformed - 1)
    /\ [][genPc = "raised" => UNCHANGED <<genPc, requests, yielded, fileLines>>]_vars

\* The second record of the second page lacks a slug: three entities were
\* yielded, the KeyError left get_probes and main.
C6_Witness ==
    /\ FirstMalformed = 4
    /\ genPc = "raised"
    /\ exc = "KeyError"
    /\ Len(yielded) = 3
    /\ requests = 2
    /\ mainPc = "aborted"

\* C9: when main has been left by an exception of the listing, the file is
\* closed and holds the header followed by one row per yielded entity, in
\* order; it is closed on the normal exit as well.
C9_AbortKeepsRows ==
    /\ mainPc = "aborted" =>
          /\ ~fileOpen
          /\ fileLines = <<HEADER>> \o RowsOf(yielded)
    /\ mainPc = "done" => ~fileOpen

\* A page of two records was written, then the next request failed.
C9_Witness ==
    /\ mainPc = "aborted"
    /\ exc = "HTTPError"
    /\ Len(yielded) = 2
    /\ Len(fileLines) = 3

\* The response ends the chain: a non-success status, a zero count or a
\* null next.
IsTerminal(resp) ==
    /\ resp # NoResponse
    /\ \/ ~IsSuccess(resp.status)
       \/ (resp.json.ok /\ (resp.json.val.count.v = 0
                            \/ resp.json.val.next = PyNone))

\* C10: once the chain has reached a page with a null next, a zero count or
\* a failed response, get_probes issues no request any more.
C10_TerminalPageEndsRequests ==
    [][IsTerminal(r) => requests' = requests]_vars

====
